---- MODULE Spec2Model ----
(***************************************************************************)
(* Model of utils/pdf_processor.py: the line classifier (is_title,         *)
(* is_junk), and extract_structured_sections with its two backend          *)
(* branches ("pymupdf" and "pypdf2").                                       *)
(*                                                                         *)
(* A Python str is modelled as a sequence of one-character strings, so     *)
(* that strip, split, join, lower, isupper, istitle, the substring test    *)
(* and the two regular expressions are computed character by character.    *)
(***************************************************************************)
EXTENDS Integers, Sequences, FiniteSets, TLC

VARIABLES
    PDF_LIBRARY,        \* module global set by the imports: "pymupdf" or "pypdf2"
    pdf_path,           \* argument of extract_structured_sections
    doc,                \* what the backend holds: the pages' texts, in order
    handle,             \* the document / file handle: "none", "open", "closed"
    pc,                 \* position in extract_structured_sections
    page_num,           \* enumerate index of the current page (0-based)
    lines,              \* text.split('\n') of the current page
    li,                 \* index in lines of the next line of the inner for loop
    current_title,
    current_text_block,
    structured_data,
    uuids,              \* number of uuid.uuid4() values drawn so far
    cl_line,            \* classifier harness: the line under test
    cl_title,           \* classifier harness: { is_title(cl_line) } once called, { } before
    cl_junk,            \* classifier harness: { is_junk(cl_line) } once called, { } before
    eq_mu,              \* branch harness: { result of the "pymupdf" branch }, { } before
    eq_py               \* branch harness: { result of the "pypdf2" branch }, { } before

vars == << PDF_LIBRARY, pdf_path, doc, handle, pc, page_num, lines, li,
           current_title, current_text_block, structured_data, uuids,
           cl_line, cl_title, cl_junk, eq_mu, eq_py >>

driverVars == << PDF_LIBRARY, pdf_path, doc, handle, pc, page_num, lines, li,
                 current_title, current_text_block, structured_data, uuids >>

classifyVars == << cl_line, cl_title, cl_junk >>

equivVars == << eq_mu, eq_py >>

----------------------------------------------------------------------------
(* Bounds of the model *)

\* pages of a document
MaxPages == 2

\* lines of a document, over all its pages
MaxLines == 3

\* leading / trailing blanks put around a classifier input
MaxPad == 2

----------------------------------------------------------------------------
(* Python str operations *)

UpperStr == <<"A", "B", "C", "D", "E", "F", "G", "H", "I", "J", "K", "L", "M", "N", "O", "P", "Q", "R", "S", "T", "U", "V", "W", "X", "Y", "Z">>

LowerStr == <<"a", "b", "c", "d", "e", "f", "g", "h", "i", "j", "k", "l", "m", "n", "o", "p", "q", "r", "s", "t", "u", "v", "w", "x", "y", "z">>

Upper == { UpperStr[i] : i \in 1..Len(UpperStr) }

Lower == { LowerStr[i] : i \in 1..Len(LowerStr) }

Digit == {"0", "1", "2", "3", "4", "5", "6", "7", "8", "9"}

\* str.isspace() / regex \s, on the characters the model uses
Whitespace == {" ", "\t", "\r", "\n", "\f"}

\* the bullet glyph U+2022 of the enumerator pattern
Bullet == "U+2022"

SetMin(S) == CHOOSE x \in S : \A y \in S : x <= y

SetMax(S) == CHOOSE x \in S : \A y \in S : x >= y

\* str.strip(): the characters from the first to the last that is not whitespace
Strip(s) ==
    LET n     == Len(s)
        lead  == Cardinality({ i \in 1..n : \A k \in 1..i : s[k] \in Whitespace })
        trail == Cardinality({ i \in 1..n : \A k \in 1..i : s[n + 1 - k] \in Whitespace })
    IN  IF lead = n THEN << >> ELSE SubSeq(s, lead + 1, n - trail)

\* str.lower(), one character
LowerChar(c) ==
    IF c \in Upper THEN LowerStr[CHOOSE i \in 1..Len(UpperStr) : UpperStr[i] = c] ELSE c

\* str.lower()
ToLower(s) == [ i \in 1..Len(s) |-> LowerChar(s[i]) ]

\* str.endswith(suffix)
EndsWith(s, suffix) ==
    /\ Len(s) >= Len(suffix)
    /\ SubSeq(s, Len(s) - Len(suffix) + 1, Len(s)) = suffix

\* s[i:].startswith(prefix), i 1-based
StartsWithAt(s, i, prefix) ==
    /\ i + Len(prefix) - 1 <= Len(s)
    /\ \A k \in 1..Len(prefix) : s[i + k - 1] = prefix[k]

\* keyword in s
Contains(s, keyword) ==
    \E i \in 1..(Len(s) - Len(keyword) + 1) : StartsWithAt(s, i, keyword)

\* the members of a finite set of integers, in increasing order
Sorted(S) ==
    [ k \in 1..Cardinality(S) |->
        CHOOSE i \in S : Cardinality({ j \in S : j < i }) = k - 1 ]

\* str.split() with no argument: the runs of non-whitespace
Split(s) ==
    LET n      == Len(s)
        starts == Sorted({ i \in 1..n : s[i] \notin Whitespace
                                         /\ (i = 1 \/ s[i - 1] \in Whitespace) })
        ends   == Sorted({ i \in 1..n : s[i] \notin Whitespace
                                         /\ (i = n \/ s[i + 1] \in Whitespace) })
    IN  [ k \in 1..Len(starts) |-> SubSeq(s, starts[k], ends[k]) ]

\* str.split(sep) for a one-character sep: the pieces between the separators,
\* empty ones kept
SplitOn(s, sep) ==
    LET n    == Len(s)
        seps == Sorted({ i \in 1..n : s[i] = sep })
        m    == Len(seps)
    IN  [ k \in 1..(m + 1) |->
            SubSeq(s, IF k = 1 THEN 1 ELSE seps[k - 1] + 1,
                      IF k = m + 1 THEN n ELSE seps[k] - 1) ]

RECURSIVE Join(_, _)
\* sep.join(parts)
Join(sep, parts) ==
    IF Len(parts) = 0 THEN << >>
    ELSE IF Len(parts) = 1 THEN parts[1]
    ELSE parts[1] \o sep \o Join(sep, Tail(parts))

\* " ".join(s.split())
NormalizeWhitespace(s) == Join(<<" ">>, Split(s))

\* str.isupper(): some cased character, and no lowercase one
IsUpper(s) ==
    /\ \E i \in 1..Len(s) : s[i] \in Upper
    /\ \A i \in 1..Len(s) : s[i] \notin Lower

\* str.istitle(): uppercase only after an uncased character, lowercase only
\* after a cased one, and at least one cased character
IsTitleCase(s) ==
    /\ \E i \in 1..Len(s) : s[i] \in Upper \cup Lower
    /\ \A i \in 1..Len(s) :
         LET previous_is_cased == i > 1 /\ s[i - 1] \in Upper \cup Lower
         IN  /\ s[i] \in Upper => ~previous_is_cased
             /\ s[i] \in Lower => previous_is_cased

AllIn(s, i, j, S) == \A k \in i..j : s[k] \in S

----------------------------------------------------------------------------
(* is_title *)

\* len(stripped_line) > 120
MaxTitleLen == 120

\* len(stripped_line.split()) < 8
MaxTitleWords == 8

\* The positions right after an enumerator that starts at position i:
\* \d{1,2}\. | [A-Z]\. | \([a-z]\) | \([ivx]+\) | bullet
EnumeratorEnds(s, i) ==
    LET n == Len(s)
    IN  { j \in (i + 1)..(n + 1) :
            \/ j = i + 2 /\ s[i] \in Digit /\ s[i + 1] = "."
            \/ j = i + 3 /\ s[i] \in Digit /\ s[i + 1] \in Digit /\ s[i + 2] = "."
            \/ j = i + 2 /\ s[i] \in Upper /\ s[i + 1] = "."
            \/ j = i + 3 /\ s[i] = "(" /\ s[i + 1] \in Lower /\ s[i + 2] = ")"
            \/ j >= i + 3 /\ s[i] = "(" /\ s[j - 1] = ")"
                 /\ AllIn(s, i + 1, j - 2, {"i", "v", "x"})
            \/ j = i + 1 /\ s[i] = Bullet }

\* re.match(r'^\s*(\d{1,2}\.|[A-Z]\.|\([a-z]\)|\([ivx]+\)|bullet)\s+', s)
MatchesEnumerator(s) ==
    \E i \in 1..Len(s) :
        /\ AllIn(s, 1, i - 1, Whitespace)
        /\ \E j \in EnumeratorEnds(s, i) : j <= Len(s) /\ s[j] \in Whitespace

\* is_title without the test of str.isupper()
is_title_NoUpper(line) ==
    LET stripped_line == Strip(line)
    IN  IF stripped_line = << >> \/ Len(stripped_line) > MaxTitleLen THEN FALSE
        ELSE IF EndsWith(stripped_line, <<".">>) THEN FALSE
        ELSE IF MatchesEnumerator(stripped_line) THEN TRUE
        ELSE Len(Split(stripped_line)) < MaxTitleWords /\ IsTitleCase(stripped_line)

\* is_title without the test of the length
is_title_NoLengthLimit(line) ==
    LET stripped_line == Strip(line)
    IN  IF stripped_line = << >> THEN FALSE
        ELSE IF EndsWith(stripped_line, <<".">>) THEN FALSE
        ELSE IF MatchesEnumerator(stripped_line) THEN TRUE
        ELSE Len(Split(stripped_line)) < MaxTitleWords
             /\ (IsUpper(stripped_line) \/ IsTitleCase(stripped_line))

is_title(line) ==
    LET stripped_line == Strip(line)
    IN  IF stripped_line = << >> \/ Len(stripped_line) > MaxTitleLen THEN FALSE
        ELSE IF EndsWith(stripped_line, <<".">>) THEN FALSE
        ELSE IF MatchesEnumerator(stripped_line) THEN TRUE
        ELSE IF Len(Split(stripped_line)) < MaxTitleWords
             THEN IF IsUpper(stripped_line) THEN TRUE
                  ELSE IF IsTitleCase(stripped_line) THEN TRUE
                  ELSE FALSE
        ELSE FALSE

----------------------------------------------------------------------------
(* is_junk *)

junk_keywords ==
    << <<"u", "i", "n", ":">>,
       <<"i", "r", "d", "a">>,
       <<"r", "e", "g", "n", ".", " ", "n", "o", ".">>,
       <<"r", "e", "g", ".", " ", "n", "o", ".">>,
       <<"c", "i", "n", ":">>,
       <<"g", "s", "t", "i", "n">>,
       <<"s", "u", "b", "j", "e", "c", "t", " ", "m", "a", "t", "t", "e", "r", " ", "o", "f", " ", "s", "o", "l", "i", "c", "i", "t", "a", "t", "i", "o", "n">>,
       <<"t", "r", "a", "d", "e", " ", "l", "o", "g", "o">>,
       <<"c", "o", "r", "p", "o", "r", "a", "t", "e", " ", "o", "f", "f", "i", "c", "e">>,
       <<"r", "e", "g", "i", "s", "t", "e", "r", "e", "d", " ", "o", "f", "f", "i", "c", "e">>,
       <<"t", "o", "l", "l", "-", "f", "r", "e", "e">>,
       <<"w", "e", "b", "s", "i", "t", "e", ":">>,
       <<"e", "-", "m", "a", "i", "l">>,
       <<".", "c", "o", "m">>,
       <<".", "i", "n">>,
       <<"c", "o", "n", "f", "i", "d", "e", "n", "t", "i", "a", "l">>,
       <<"i", "n", "t", "e", "r", "n", "a", "l", " ", "u", "s", "e">> >>

\* page\s*\d+ over the whole of s
MatchesPageN(s) ==
    LET n == Len(s)
    IN  /\ StartsWithAt(s, 1, <<"p", "a", "g", "e">>)
        /\ \E k \in 4..(n - 1) :
              AllIn(s, 5, k, Whitespace) /\ AllIn(s, k + 1, n, Digit)

\* \d+\s*of\s*\d+ over the whole of s
MatchesNofM(s) ==
    LET n == Len(s)
    IN  \E a \in 1..n :
            /\ AllIn(s, 1, a, Digit)
            /\ \E b \in a..n :
                  /\ AllIn(s, a + 1, b, Whitespace)
                  /\ StartsWithAt(s, b + 1, <<"o", "f">>)
                  /\ \E c \in (b + 2)..(n - 1) :
                        /\ AllIn(s, b + 3, c, Whitespace)
                        /\ AllIn(s, c + 1, n, Digit)

\* re.search(r'^(page\s*\d+|\d+\s*of\s*\d+)$', s)
MatchesPageNumber(s) == MatchesPageN(s) \/ MatchesNofM(s)

is_junk(line) ==
    LET stripped_line == ToLower(Strip(line))
    IN  IF stripped_line = << >> THEN TRUE
        ELSE IF \E k \in 1..Len(junk_keywords) : Contains(stripped_line, junk_keywords[k])
             THEN TRUE
        ELSE IF MatchesPageNumber(stripped_line) THEN TRUE
        ELSE FALSE

----------------------------------------------------------------------------
(* extract_structured_sections: what both branches share in the source text *)

\* "General Information"
DefaultTitle == <<"G", "e", "n", "e", "r", "a", "l", " ", "I", "n", "f", "o", "r", "m", "a", "t", "i", "o", "n">>

\* The local state of the loops, as one value, for the operators below.
Acc == [ current_title      |-> current_title,
         current_text_block |-> current_text_block,
         structured_data    |-> structured_data,
         uuids              |-> uuids ]

SetAcc(a) ==
    /\ current_title' = a.current_title
    /\ current_text_block' = a.current_text_block
    /\ structured_data' = a.structured_data
    /\ uuids' = a.uuids

----------------------------------------------------------------------------
(* The "pymupdf" branch, lines 98-137 *)

\* the dict literal appended at lines 112-118 and 129-135; str(uuid.uuid4())
\* is a fresh value, modelled by the number of the draw
MuSection(a, num, path) ==
    [ id          |-> a.uuids + 1,
      page_number |-> num + 1,
      title       |-> a.current_title,
      text        |-> NormalizeWhitespace(a.current_text_block),
      source      |-> path ]

\* MuAppend putting the new record first
MuAppend_Front(a, num, path) ==
    [ a EXCEPT !.structured_data = << MuSection(a, num, path) >> \o @,
               !.uuids = @ + 1 ]

MuAppend(a, num, path) ==
    [ a EXCEPT !.structured_data = Append(@, MuSection(a, num, path)),
               !.uuids = @ + 1 ]

\* MuFreshAcc with current_text_block set once, before the loop over the pages
MuFreshAcc_KeepBlock(a) ==
    [ a EXCEPT !.current_title = DefaultTitle ]

\* lines 101-102: every page starts with the default title and no text
MuFreshAcc(a) ==
    [ a EXCEPT !.current_title = DefaultTitle, !.current_text_block = << >> ]

\* MuTitleStep keeping the first of several titles in a row
MuTitleStep_KeepFirst(a, line, num, path) ==
    IF Strip(a.current_text_block) # << >>
    THEN [ MuAppend(a, num, path) EXCEPT !.current_title = Strip(line),
                                         !.current_text_block = << >> ]
    ELSE IF a.current_title = DefaultTitle
    THEN [ a EXCEPT !.current_title = Strip(line), !.current_text_block = << >> ]
    ELSE [ a EXCEPT !.current_text_block = << >> ]

\* lines 109-122: the line is a title
MuTitleStep(a, line, num, path) ==
    LET saved == IF Strip(a.current_text_block) # << >>
                 THEN MuAppend(a, num, path)
                 ELSE a
    IN  [ saved EXCEPT !.current_title = Strip(line),
                       !.current_text_block = << >> ]

\* MuContentStep with = in place of +=
MuContentStep_Overwrite(a, line) ==
    [ a EXCEPT !.current_text_block = <<" ">> \o Strip(line) ]

\* lines 123-125: the line is content
MuContentStep(a, line) ==
    [ a EXCEPT !.current_text_block = @ \o <<" ">> \o Strip(line) ]

\* MuPageEnd without the test of current_text_block
MuPageEnd_Unguarded(a, num, path) == MuAppend(a, num, path)

\* lines 127-135: after the loop over the lines
MuPageEnd(a, num, path) ==
    IF Strip(a.current_text_block) # << >> THEN MuAppend(a, num, path) ELSE a

\* lines 108-125: the body of the loop over the lines
MuLineStep(a, line, num, path) ==
    IF is_title(line) THEN MuTitleStep(a, line, num, path)
    ELSE IF ~is_junk(line) THEN MuContentStep(a, line)
    ELSE a

RECURSIVE MuLines(_, _, _, _, _)
\* lines 107-125: the loop over the lines, from line i on
MuLines(a, ls, i, num, path) ==
    IF i > Len(ls) THEN a
    ELSE MuLines(MuLineStep(a, ls[i], num, path), ls, i + 1, num, path)

\* lines 101-135: one page
MuPage(a, text, num, path) ==
    MuPageEnd(MuLines(MuFreshAcc(a), SplitOn(text, "\n"), 1, num, path), num, path)

RECURSIVE MuPages(_, _, _, _)
\* lines 100-135: the loop over the pages, from index num on
MuPages(a, document, num, path) ==
    IF num >= Len(document) THEN a
    ELSE MuPages(MuPage(a, document[num + 1], num, path), document, num + 1, path)

\* lines 96-137, 180: the branch as a function of the backend's page texts
MuExtract(document, path) ==
    MuPages([ current_title |-> DefaultTitle, current_text_block |-> << >>,
              structured_data |-> << >>, uuids |-> 0 ], document, 0, path).structured_data

----------------------------------------------------------------------------
(* The "pypdf2" branch, lines 139-178 *)

\* PySection with page_num in place of page_num + 1
PySection_ZeroBased(a, num, path) ==
    [ id          |-> a.uuids + 1,
      page_number |-> num,
      title       |-> a.current_title,
      text        |-> NormalizeWhitespace(a.current_text_block),
      source      |-> path ]

\* the dict literal appended at lines 155-161 and 172-178
PySection(a, num, path) ==
    [ id          |-> a.uuids + 1,
      page_number |-> num + 1,
      title       |-> a.current_title,
      text        |-> NormalizeWhitespace(a.current_text_block),
      source      |-> path ]

PyAppend(a, num, path) ==
    [ a EXCEPT !.structured_data = Append(@, PySection(a, num, path)),
               !.uuids = @ + 1 ]

\* lines 144-145: every page starts with the default title and no text
PyFreshAcc(a) ==
    [ a EXCEPT !.current_title = DefaultTitle, !.current_text_block = << >> ]

\* lines 152-165: the line is a title
PyTitleStep(a, line, num, path) ==
    LET saved == IF Strip(a.current_text_block) # << >>
                 THEN PyAppend(a, num, path)
                 ELSE a
    IN  [ saved EXCEPT !.current_title = Strip(line),
                       !.current_text_block = << >> ]

\* lines 166-168: the line is content
PyContentStep(a, line) ==
    [ a EXCEPT !.current_text_block = @ \o <<" ">> \o Strip(line) ]

\* lines 170-178: after the loop over the lines
PyPageEnd(a, num, path) ==
    IF Strip(a.current_text_block) # << >> THEN PyAppend(a, num, path) ELSE a

\* lines 151-168: the body of the loop over the lines
PyLineStep(a, line, num, path) ==
    IF is_title(line) THEN PyTitleStep(a, line, num, path)
    ELSE IF ~is_junk(line) THEN PyContentStep(a, line)
    ELSE a

RECURSIVE PyLines(_, _, _, _, _)
\* lines 150-168: the loop over the lines, from line i on
PyLines(a, ls, i, num, path) ==
    IF i > Len(ls) THEN a
    ELSE PyLines(PyLineStep(a, ls[i], num, path), ls, i + 1, num, path)

\* lines 144-178: one page
PyPage(a, text, num, path) ==
    PyPageEnd(PyLines(PyFreshAcc(a), SplitOn(text, "\n"), 1, num, path), num, path)

RECURSIVE PyPages(_, _, _, _)
\* lines 143-178: the loop over the pages, from index num on
PyPages(a, document, num, path) ==
    IF num >= Len(document) THEN a
    ELSE PyPages(PyPage(a, document[num + 1], num, path), document, num + 1, path)

\* lines 96, 139-180: the branch as a function of the backend's page texts
PyExtract(document, path) ==
    PyPages([ current_title |-> DefaultTitle, current_text_block |-> << >>,
              structured_data |-> << >>, uuids |-> 0 ], document, 0, path).structured_data

----------------------------------------------------------------------------
(* Inputs *)

L_Empty == << >>

L_Risks == <<"1", ".", " ", "R", "i", "s", "k", "s">>

L_Page1 == <<"P", "a", "g", "e", " ", "1">>

L_RiskText == <<"R", "i", "s", "k", " ", "t", "e", "x", "t", " ", "h", "e", "r", "e", ".">>

L_Spaced == <<" ", "n", "e", "t", " ", "\t", "l", "o", "s", "s", " ">>

L_Irda == <<"i", "r", "d", "a", " ", "7">>

L_RevenueSummary == <<"R", "E", "V", "E", "N", "U", "E", " ", "S", "U", "M", "M", "A", "R", "Y">>

L_TotalIncome == <<"T", "o", "t", "a", "l", " ", "i", "n", "c", "o", "m", "e", " ", "w", "a", "s", " ", "5", "0", "0", ".">>

\* the lines the generated pages are made of: junk, titles, a line that is
\* both, and content
LinePool == { L_Empty, L_Risks, L_Page1, L_RiskText, L_Spaced }

\* the page of the end-to-end example
ExampleLines == << L_RevenueSummary, L_TotalIncome, L_Page1, L_Risks, L_RiskText >>

ExamplePage == Join(<<"\n">>, ExampleLines)

RECURSIVE LineSeqs(_)
\* the sequences of n lines of the pool
LineSeqs(n) ==
    IF n = 0 THEN { << >> }
    ELSE { Append(ls, l) : ls \in LineSeqs(n - 1), l \in LinePool }

\* the page texts of k lines (a text always splits into at least one line)
PagesOf(k) == { Join(<<"\n">>, ls) : ls \in LineSeqs(k) }

RECURSIVE DocsWithin(_, _)
\* the documents of at most p pages and at most l lines in all
DocsWithin(p, l) ==
    { << >> } \cup
    ( IF p = 0 THEN { }
      ELSE UNION { { << pg >> \o rest : pg \in PagesOf(k), rest \in DocsWithin(p - 1, l - k) }
                   : k \in 1..l } )

Docs == DocsWithin(MaxPages, MaxLines) \cup { << ExamplePage >> }

Paths == { "policy.pdf" }

Libraries == { "pymupdf", "pypdf2" }

Blanks(n) == [ i \in 1..n |-> " " ]

Repeat(c, n) == [ i \in 1..n |-> c ]

\* classifier inputs: the pool and the example's lines, and bodies whose length
\* is around the title limit, with and without a final period, between blanks
ClassifyInputs ==
    LinePool \cup { L_Irda } \cup { ExampleLines[i] : i \in 1..Len(ExampleLines) }
    \cup { Blanks(a) \o Repeat(c, n) \o tail \o Blanks(b) :
             a \in 0..MaxPad, b \in 0..MaxPad, c \in {"A", "a"},
             n \in (MaxTitleLen - 2)..(MaxTitleLen + 2), tail \in { << >>, <<".">> } }

----------------------------------------------------------------------------
(* The driver: one call of extract_structured_sections *)

Init ==
    /\ PDF_LIBRARY \in Libraries
    /\ pdf_path \in Paths
    /\ doc \in Docs
    /\ handle = "none"
    /\ pc = "start"
    /\ page_num = -1
    /\ lines = << >>
    /\ li = 1
    /\ current_title = << >>
    /\ current_text_block = << >>
    /\ structured_data = << >>
    /\ uuids = 0
    /\ cl_line = << >>
    /\ cl_title = { }
    /\ cl_junk = { }
    /\ eq_mu = { }
    /\ eq_py = { }

AtLine == pc = "for_line" /\ li <= Len(lines)

\* line 99: fitz.open(pdf_path)
MuOpen ==
    /\ pc = "start" /\ PDF_LIBRARY = "pymupdf"
    /\ handle' = "open"
    /\ pc' = "for_page"
    /\ UNCHANGED << PDF_LIBRARY, pdf_path, doc, page_num, lines, li, current_title,
                    current_text_block, structured_data, uuids, classifyVars, equivVars >>

\* line 99: fitz.open raises, nothing was opened
MuOpenRaises ==
    /\ pc = "start" /\ PDF_LIBRARY = "pymupdf"
    /\ pc' = "raised"
    /\ UNCHANGED << PDF_LIBRARY, pdf_path, doc, handle, page_num, lines, li, current_title,
                    current_text_block, structured_data, uuids, classifyVars, equivVars >>

\* lines 100-105: the next page, its text and its lines
MuNextPage ==
    /\ pc = "for_page" /\ PDF_LIBRARY = "pymupdf"
    /\ page_num + 1 < Len(doc)
    /\ page_num' = page_num + 1
    /\ SetAcc(MuFreshAcc(Acc))
    /\ lines' = SplitOn(doc[page_num + 2], "\n")
    /\ li' = 1
    /\ pc' = "for_line"
    /\ UNCHANGED << PDF_LIBRARY, pdf_path, doc, handle, classifyVars, equivVars >>

\* line 104: page.get_text raises; nothing between it and the caller closes doc
MuGetTextRaises ==
    /\ pc = "for_page" /\ PDF_LIBRARY = "pymupdf"
    /\ page_num + 1 < Len(doc)
    /\ page_num' = page_num + 1
    /\ SetAcc(MuFreshAcc(Acc))
    /\ pc' = "raised"
    /\ UNCHANGED << PDF_LIBRARY, pdf_path, doc, handle, lines, li, classifyVars, equivVars >>

\* lines 108-122
MuTitleLine ==
    /\ AtLine /\ PDF_LIBRARY = "pymupdf"
    /\ is_title(lines[li])
    /\ SetAcc(MuTitleStep(Acc, lines[li], page_num, pdf_path))
    /\ li' = li + 1
    /\ UNCHANGED << PDF_LIBRARY, pdf_path, doc, handle, pc, page_num, lines,
                    classifyVars, equivVars >>

\* lines 123-125
MuContentLine ==
    /\ AtLine /\ PDF_LIBRARY = "pymupdf"
    /\ ~is_title(lines[li]) /\ ~is_junk(lines[li])
    /\ SetAcc(MuContentStep(Acc, lines[li]))
    /\ li' = li + 1
    /\ UNCHANGED << PDF_LIBRARY, pdf_path, doc, handle, pc, page_num, lines,
                    classifyVars, equivVars >>

\* lines 108, 123: neither branch of the if is taken
MuJunkLine ==
    /\ AtLine /\ PDF_LIBRARY = "pymupdf"
    /\ ~is_title(lines[li]) /\ is_junk(lines[li])
    /\ li' = li + 1
    /\ UNCHANGED << PDF_LIBRARY, pdf_path, doc, handle, pc, page_num, lines, current_title,
                    current_text_block, structured_data, uuids, classifyVars, equivVars >>

\* lines 127-135
MuEndOfPage ==
    /\ pc = "for_line" /\ PDF_LIBRARY = "pymupdf"
    /\ li > Len(lines)
    /\ SetAcc(MuPageEnd(Acc, page_num, pdf_path))
    /\ pc' = "for_page"
    /\ UNCHANGED << PDF_LIBRARY, pdf_path, doc, handle, page_num, lines, li,
                    classifyVars, equivVars >>

\* lines 137, 180: doc.close() and the return
MuClose ==
    /\ pc = "for_page" /\ PDF_LIBRARY = "pymupdf"
    /\ page_num + 1 >= Len(doc)
    /\ handle' = "closed"
    /\ pc' = "returned"
    /\ UNCHANGED << PDF_LIBRARY, pdf_path, doc, page_num, lines, li, current_title,
                    current_text_block, structured_data, uuids, classifyVars, equivVars >>

\* lines 140-141: open(pdf_path, 'rb') and PyPDF2.PdfReader(file)
PyOpen ==
    /\ pc = "start" /\ PDF_LIBRARY = "pypdf2"
    /\ handle' = "open"
    /\ pc' = "for_page"
    /\ UNCHANGED << PDF_LIBRARY, pdf_path, doc, page_num, lines, li, current_title,
                    current_text_block, structured_data, uuids, classifyVars, equivVars >>

\* line 140: open raises, nothing was opened
PyOpenRaises ==
    /\ pc = "start" /\ PDF_LIBRARY = "pypdf2"
    /\ pc' = "raised"
    /\ UNCHANGED << PDF_LIBRARY, pdf_path, doc, handle, page_num, lines, li, current_title,
                    current_text_block, structured_data, uuids, classifyVars, equivVars >>

\* line 141: PdfReader raises inside the with statement, which closes the file
PyReaderRaises ==
    /\ pc = "start" /\ PDF_LIBRARY = "pypdf2"
    /\ handle' = "closed"
    /\ pc' = "raised"
    /\ UNCHANGED << PDF_LIBRARY, pdf_path, doc, page_num, lines, li, current_title,
                    current_text_block, structured_data, uuids, classifyVars, equivVars >>

\* lines 143-148: the next page, its text and its lines
PyNextPage ==
    /\ pc = "for_page" /\ PDF_LIBRARY = "pypdf2"
    /\ page_num + 1 < Len(doc)
    /\ page_num' = page_num + 1
    /\ SetAcc(PyFreshAcc(Acc))
    /\ lines' = SplitOn(doc[page_num + 2], "\n")
    /\ li' = 1
    /\ pc' = "for_line"
    /\ UNCHANGED << PDF_LIBRARY, pdf_path, doc, handle, classifyVars, equivVars >>

\* line 147: page.extract_text raises inside the with statement, which closes
\* the file
PyExtractTextRaises ==
    /\ pc = "for_page" /\ PDF_LIBRARY = "pypdf2"
    /\ page_num + 1 < Len(doc)
    /\ page_num' = page_num + 1
    /\ SetAcc(PyFreshAcc(Acc))
    /\ handle' = "closed"
    /\ pc' = "raised"
    /\ UNCHANGED << PDF_LIBRARY, pdf_path, doc, lines, li, classifyVars, equivVars >>

\* lines 151-165
PyTitleLine ==
    /\ AtLine /\ PDF_LIBRARY = "pypdf2"
    /\ is_title(lines[li])
    /\ SetAcc(PyTitleStep(Acc, lines[li], page_num, pdf_path))
    /\ li' = li + 1
    /\ UNCHANGED << PDF_LIBRARY, pdf_path, doc, handle, pc, page_num, lines,
                    classifyVars, equivVars >>

\* lines 166-168
PyContentLine ==
    /\ AtLine /\ PDF_LIBRARY = "pypdf2"
    /\ ~is_title(lines[li]) /\ ~is_junk(lines[li])
    /\ SetAcc(PyContentStep(Acc, lines[li]))
    /\ li' = li + 1
    /\ UNCHANGED << PDF_LIBRARY, pdf_path, doc, handle, pc, page_num, lines,
                    classifyVars, equivVars >>

\* lines 151, 166: neither branch of the if is taken
PyJunkLine ==
    /\ AtLine /\ PDF_LIBRARY = "pypdf2"
    /\ ~is_title(lines[li]) /\ is_junk(lines[li])
    /\ li' = li + 1
    /\ UNCHANGED << PDF_LIBRARY, pdf_path, doc, handle, pc, page_num, lines, current_title,
                    current_text_block, structured_data, uuids, classifyVars, equivVars >>

\* lines 170-178
PyEndOfPage ==
    /\ pc = "for_line" /\ PDF_LIBRARY = "pypdf2"
    /\ li > Len(lines)
    /\ SetAcc(PyPageEnd(Acc, page_num, pdf_path))
    /\ pc' = "for_page"
    /\ UNCHANGED << PDF_LIBRARY, pdf_path, doc, handle, page_num, lines, li,
                    classifyVars, equivVars >>

\* lines 140, 180: the with statement ends, closing the file, and the return
PyReturn ==
    /\ pc = "for_page" /\ PDF_LIBRARY = "pypdf2"
    /\ page_num + 1 >= Len(doc)
    /\ handle' = "closed"
    /\ pc' = "returned"
    /\ UNCHANGED << PDF_LIBRARY, pdf_path, doc, page_num, lines, li, current_title,
                    current_text_block, structured_data, uuids, classifyVars, equivVars >>

Next ==
    \/ MuOpen \/ MuOpenRaises \/ MuNextPage \/ MuGetTextRaises
    \/ MuTitleLine \/ MuContentLine \/ MuJunkLine \/ MuEndOfPage \/ MuClose
    \/ PyOpen \/ PyOpenRaises \/ PyReaderRaises \/ PyNextPage \/ PyExtractTextRaises
    \/ PyTitleLine \/ PyContentLine \/ PyJunkLine \/ PyEndOfPage \/ PyReturn

Spec == Init /\ [][Next]_vars

----------------------------------------------------------------------------
(* The classifier on its own: is_title and is_junk applied to one line *)

InitClassify ==
    /\ PDF_LIBRARY = "pymupdf"
    /\ pdf_path = "policy.pdf"
    /\ doc = << >>
    /\ handle = "none"
    /\ pc = "start"
    /\ page_num = -1
    /\ lines = << >>
    /\ li = 1
    /\ current_title = << >>
    /\ current_text_block = << >>
    /\ structured_data = << >>
    /\ uuids = 0
    /\ cl_line \in ClassifyInputs
    /\ cl_title = { }
    /\ cl_junk = { }
    /\ eq_mu = { }
    /\ eq_py = { }

CallIsTitle ==
    /\ cl_title = { }
    /\ cl_title' = { is_title(cl_line) }
    /\ UNCHANGED << driverVars, cl_line, cl_junk, equivVars >>

CallIsJunk ==
    /\ cl_junk = { }
    /\ cl_junk' = { is_junk(cl_line) }
    /\ UNCHANGED << driverVars, cl_line, cl_title, equivVars >>

NextClassify == CallIsTitle \/ CallIsJunk

SpecClassify == InitClassify /\ [][NextClassify]_vars

----------------------------------------------------------------------------
(* The two branches side by side, on the same path and page texts *)

InitBranches ==
    /\ PDF_LIBRARY = "pymupdf"
    /\ pdf_path \in Paths
    /\ doc \in Docs
    /\ handle = "none"
    /\ pc = "start"
    /\ page_num = -1
    /\ lines = << >>
    /\ li = 1
    /\ current_title = << >>
    /\ current_text_block = << >>
    /\ structured_data = << >>
    /\ uuids = 0
    /\ cl_line = << >>
    /\ cl_title = { }
    /\ cl_junk = { }
    /\ eq_mu = { }
    /\ eq_py = { }

RunPyMuPDF ==
    /\ eq_mu = { }
    /\ eq_mu' = { MuExtract(doc, pdf_path) }
    /\ UNCHANGED << driverVars, classifyVars, eq_py >>

RunPyPDF2 ==
    /\ eq_py = { }
    /\ eq_py' = { PyExtract(doc, pdf_path) }
    /\ UNCHANGED << driverVars, classifyVars, eq_mu >>

NextBranches == RunPyMuPDF \/ RunPyPDF2

SpecBranches == InitBranches /\ [][NextBranches]_vars

----------------------------------------------------------------------------
(* Vocabulary of the properties *)

\* the lines of page p (1-based) of the document
PageLines(p) == SplitOn(doc[p], "\n")

IsContentLine(line) == ~is_title(line) /\ ~is_junk(line)

\* what the loop takes each line of L for: the title test comes first
Kinds(L) ==
    [ k \in 1..Len(L) |->
        IF is_title(L[k]) THEN "title" ELSE IF is_junk(L[k]) THEN "junk" ELSE "content" ]

\* the pages whose records are complete: at the head of the loop over the
\* pages, the page whose lines were just gone through; after the return, all
CompletedPages ==
    IF pc = "returned" THEN 1..Len(doc)
    ELSE IF pc = "for_page" /\ page_num >= 0 THEN { page_num + 1 }
    ELSE { }

\* between two pages, after the return, after an exception
BetweenPages == pc \in {"for_page", "returned", "raised"}

\* the records of page p, in the order of structured_data
RecordsOfPage(p) ==
    LET idx == Sorted({ i \in 1..Len(structured_data) : structured_data[i].page_number = p })
    IN  [ k \in 1..Len(idx) |-> structured_data[idx[k]] ]

\* the trimmed content lines among L[i..j], in order (K is Kinds(L))
ContentOf(L, K, i, j) ==
    LET idx == Sorted({ k \in i..j : K[k] = "content" })
    IN  [ k \in 1..Len(idx) |-> Strip(L[idx[k]]) ]

\* the content lines among L[i..j], joined by single spaces and normalized
ContentText(L, K, i, j) == NormalizeWhitespace(Join(<<" ">>, ContentOf(L, K, i, j)))

\* a content run starts at a content line with no content line before it that
\* is not separated from it by a title line
RunStarts(K) ==
    { i \in 1..Len(K) :
        /\ K[i] = "content"
        /\ \A h \in 1..(i - 1) :
              K[h] = "content" => \E t \in (h + 1)..(i - 1) : K[t] = "title" }

\* the run that starts at i ends before the next title line, or with the page
RunEnd(K, i) ==
    LET titles == { t \in (i + 1)..Len(K) : K[t] = "title" }
    IN  IF titles = { } THEN Len(K) ELSE SetMin(titles) - 1

\* the title in force at line i: the last title line before it, trimmed, or
\* the default
RunTitle(L, K, i) ==
    LET titles == { t \in 1..(i - 1) : K[t] = "title" }
    IN  IF titles = { } THEN DefaultTitle ELSE Strip(L[SetMax(titles)])

IsPrefix(s, t) == Len(s) <= Len(t) /\ SubSeq(t, 1, Len(s)) = s

Texts(recs) == [ k \in 1..Len(recs) |-> recs[k].text ]

Str_RevenueSummary == L_RevenueSummary

Str_TotalIncome == L_TotalIncome

Str_RevenueAndIncome == L_RevenueSummary \o <<" ">> \o L_TotalIncome

----------------------------------------------------------------------------
(* Properties *)

\* C1: every emitted record has text that is non-empty after trimming, and a
\* page with no content line (only titles, junk, blank lines) yields no record.
C1_NonEmptyText ==
    /\ \A i \in 1..Len(structured_data) : Strip(structured_data[i].text) # << >>
    /\ \A p \in CompletedPages :
          LET K == Kinds(PageLines(p))
          IN  (\A k \in 1..Len(K) : K[k] # "content") => RecordsOfPage(p) = << >>

\* a call that returned, whose first page holds a title line and no content
\* line and gave no record, while a later page gave one
C1_Witness ==
    /\ pc = "returned"
    /\ Len(doc) = 2
    /\ \E k \in 1..Len(PageLines(1)) : is_title(PageLines(1)[k])
    /\ \A k \in 1..Len(PageLines(1)) : ~IsContentLine(PageLines(1)[k])
    /\ RecordsOfPage(1) = << >>
    /\ Len(structured_data) >= 1

\* record r holds the content of a stretch of lines of L, under the default
\* title or a title line of L before that stretch
C2_FromPage(recs, L) ==
    LET K == Kinds(L)
    IN  \A n \in 1..Len(recs) :
          \E i \in 1..Len(L) : \E j \in i..Len(L) :
            /\ K[i] = "content"
            /\ recs[n].text = ContentText(L, K, i, j)
            /\ \/ recs[n].title = DefaultTitle
               \/ \E t \in 1..(i - 1) : K[t] = "title" /\ recs[n].title = Strip(L[t])

\* C2: every page starts with the default title and an empty text block, and
\* every record's text is the content of a stretch of lines of its own page,
\* its title the default or a title line of that page before that stretch
\* (the records are looked at between two pages and at the end of the call).
C2_PageScoped ==
    /\ (pc = "for_line" /\ li = 1) =>
          (current_title = DefaultTitle /\ current_text_block = << >>)
    /\ \A n \in 1..Len(structured_data) :
          structured_data[n].page_number \in 1..Len(doc)
    /\ BetweenPages =>
          \A p \in 1..Len(doc) : C2_FromPage(RecordsOfPage(p), PageLines(p))

\* a call that returned, whose first page ended on a title line, and whose
\* second page gave a record under the default title
C2_Witness ==
    /\ pc = "returned"
    /\ Len(doc) = 2
    /\ is_title(PageLines(1)[Len(PageLines(1))])
    /\ \E n \in 1..Len(structured_data) :
          /\ structured_data[n].page_number = 2
          /\ structured_data[n].title = DefaultTitle

\* record a covers lines of L that come before the lines record b covers
C3_InLineOrder(recs, L) ==
    LET K == Kinds(L)
    IN  \A a \in 1..Len(recs) : \A b \in (a + 1)..Len(recs) :
          \E i1 \in 1..Len(L) : \E j1 \in i1..Len(L) :
          \E i2 \in (j1 + 1)..Len(L) : \E j2 \in i2..Len(L) :
            /\ K[i1] = "content" /\ K[i2] = "content"
            /\ recs[a].text = ContentText(L, K, i1, j1)
            /\ recs[b].text = ContentText(L, K, i2, j2)

C3_Ordered ==
    /\ \A n \in 1..Len(structured_data) :
          structured_data[n].page_number \in 1..Len(doc)
    /\ \A a \in 1..Len(structured_data) : \A b \in (a + 1)..Len(structured_data) :
          structured_data[a].page_number <= structured_data[b].page_number
    /\ BetweenPages =>
          \A p \in 1..Len(doc) :
              Len(RecordsOfPage(p)) >= 2 => C3_InLineOrder(RecordsOfPage(p), PageLines(p))

\* C3: structured_data only grows at its end (no record is moved, removed,
\* merged or dropped as a duplicate), it is ordered by page and, within a
\* page, by the lines the records cover, and every page_number is a page.
C3_AppendOnlyOrdered ==
    /\ [][IsPrefix(structured_data, structured_data')]_vars
    /\ []C3_Ordered

\* a call that returned two records of the same page
C3_Witness ==
    /\ pc = "returned"
    /\ Len(structured_data) = 2
    /\ structured_data[1].page_number = structured_data[2].page_number

C4_TitlesOf(recs, L) ==
    LET K      == Kinds(L)
        starts == Sorted(RunStarts(K))
    IN  /\ Len(recs) = Len(starts)
        /\ \A k \in 1..Len(recs) : recs[k].title = RunTitle(L, K, starts[k])

\* C4: on every page, the k-th record's title is the trimmed last title line
\* before the k-th content run, or "General Information" when there is none.
C4_TitleOfRun ==
    \A p \in CompletedPages :
        C4_TitlesOf(RecordsOfPage(p), PageLines(p))

\* a page of two title lines in a row and then content: one record, under
\* the second title
C4_Witness ==
    /\ pc = "returned"
    /\ Len(doc) = 1
    /\ LET L == PageLines(1)
       IN  /\ Len(L) = 3
           /\ is_title(L[1]) /\ is_title(L[2]) /\ IsContentLine(L[3])
           /\ Strip(L[1]) # Strip(L[2])
           /\ Len(structured_data) = 1
           /\ structured_data[1].title = Strip(L[2])

\* C5 as stated: on the example page the call returns exactly two records,
\* the first titled "General Information" with the text
\* "REVENUE SUMMARY Total income was 500.".
C5_ExampleAsStated ==
    (pc = "returned" /\ doc = << ExamplePage >>) =>
        /\ Len(structured_data) = 2
        /\ structured_data[1].title = DefaultTitle
        /\ structured_data[1].text = Str_RevenueAndIncome

\* C5 amended: on the example page the call returns exactly two records, the
\* first titled "REVENUE SUMMARY" with the text "Total income was 500.".
C5_Example ==
    (pc = "returned" /\ doc = << ExamplePage >>) =>
        /\ Len(structured_data) = 2
        /\ structured_data[1].title = Str_RevenueSummary
        /\ structured_data[1].text = Str_TotalIncome

C5_Witness == pc = "returned" /\ doc = << ExamplePage >> /\ Len(structured_data) = 2

\* C6 as stated: is_title is false of every non-empty line of more than 120
\* characters, blanks at its ends counted.
C6_LongLineAsStated ==
    (cl_title # { } /\ cl_line # << >> /\ Len(cl_line) > MaxTitleLen) => cl_title = { FALSE }

\* C6 amended: is_title is false of every line that is longer than 120
\* characters after trimming.
C6_LongTrimmedLine ==
    (cl_title # { } /\ Len(Strip(cl_line)) > MaxTitleLen) => cl_title = { FALSE }

\* is_title was called on an all-capitals word of more than 120 letters, with
\* no final period
C6_Witness ==
    /\ cl_title = { FALSE }
    /\ Len(Strip(cl_line)) > MaxTitleLen
    /\ IsUpper(Strip(cl_line))
    /\ ~EndsWith(Strip(cl_line), <<".">>)

\* C7: processing a line of which is_junk is true leaves current_title and
\* current_text_block as they are and appends no record.
C7_JunkLeavesAccumulator ==
    [][(AtLine /\ is_junk(lines[li])) =>
          UNCHANGED << current_title, current_text_block, structured_data >>]_vars

\* C8: once the document was opened, the call ends, by return or by raising,
\* with the handle closed.
C8_HandleReleased ==
    (pc \in {"returned", "raised"} /\ handle # "none") => handle = "closed"

C9_TextsOf(recs, L) ==
    LET K      == Kinds(L)
        starts == Sorted(RunStarts(K))
    IN  /\ Len(recs) = Len(starts)
        /\ \A k \in 1..Len(recs) :
              recs[k].text = ContentText(L, K, starts[k], RunEnd(K, starts[k]))
        /\ Join(<<" ">>, Texts(recs)) = ContentText(L, K, 1, Len(L))

\* C9: on every page, the k-th record's text is the normalized content of the
\* k-th content run, there is one record per run, and the records' texts
\* joined by single spaces are the page's content lines, in order, normalized.
C9_NoLossNoDuplication ==
    \A p \in CompletedPages :
        C9_TextsOf(RecordsOfPage(p), PageLines(p))

\* a page of a content line, a junk line that is no title, and a content
\* line: one record holding both content lines
C9_Witness ==
    /\ pc = "returned"
    /\ Len(doc) = 1
    /\ LET L == PageLines(1)
       IN  /\ Len(L) = 3
           /\ IsContentLine(L[1]) /\ IsContentLine(L[3])
           /\ is_junk(L[2]) /\ ~is_title(L[2])
           /\ Len(structured_data) = 1
           /\ structured_data[1].text =
                 NormalizeWhitespace(Strip(L[1]) \o <<" ">> \o Strip(L[3]))

\* C10: on the same path and page texts, the two branches return lists of the
\* same length that agree, record by record, on page_number, title, text and
\* source.
C10_BranchesAgree ==
    \A a \in eq_mu : \A b \in eq_py :
        /\ Len(a) = Len(b)
        /\ \A i \in 1..Len(a) :
              /\ a[i].page_number = b[i].page_number
              /\ a[i].title = b[i].title
              /\ a[i].text = b[i].text
              /\ a[i].source = b[i].source

\* both branches were run on a document that gives at least two records
C10_Witness ==
    /\ eq_mu # { } /\ eq_py # { }
    /\ \E a \in eq_mu : Len(a) >= 2

====
